---- MODULE Spec2Model ----
(***************************************************************************)
(* A model of wareki-conv (src/src/conv.rs): the conversion of a Wareki    *)
(* (Japanese era) date string into a Gregorian date.                        *)
(*                                                                         *)
(* A string is a sequence of Unicode code points.  An unsigned 32-bit      *)
(* value is a record [hi, lo] of two 16-bit halves, so that the whole u32  *)
(* range is represented exactly; a signed 32-bit value is an integer.      *)
(***************************************************************************)
EXTENDS Integers, Sequences, FiniteSets, TLC

(***************************************************************************)
(* Characters (code points) that the source names in its literals.         *)
(***************************************************************************)
CH_DOT == 46
CH_PLUS == 43
CH_MINUS == 45
CH_ZERO == 48
CH_NINE == 57
CH_M == 77
CH_T == 84
CH_S == 83
CH_H == 72
CH_R == 82
KJ_MEI == 26126
KJ_JI == 27835
KJ_TAI == 22823
KJ_SHO_T == 27491
KJ_SHO == 26157
KJ_WA == 21644
KJ_HEI == 24179
KJ_SEI == 25104
KJ_REI == 20196
KJ_GAN == 20803
KJ_NEN == 24180
KJ_GATSU == 26376
KJ_NICHI == 26085

ARABIC_INDIC_ZERO == 1632
ARABIC_INDIC_NINE == 1641
FULLWIDTH_ZERO == 65296
FULLWIDTH_NINE == 65305

START_YEAR_OF_MEIJI == 1868
START_YEAR_OF_TAISHO == 1912
START_YEAR_OF_SHOWA == 1926
START_YEAR_OF_HEISEI == 1989
START_YEAR_OF_REIWA == 2019

Gengo == {"Meiji", "Taisho", "Showa", "Heisei", "Reiwa"}

DateType ==
  {"JisX0301Basic", "JisX0301Extended", "JisX0301ExtendedWithKanji", "SeparatedWithKanji"}

\* A slip in the table: Heisei given Showa's start year.
first_year_copy_paste(g) ==
  CASE g = "Meiji" -> START_YEAR_OF_MEIJI
    [] g = "Taisho" -> START_YEAR_OF_TAISHO
    [] g = "Showa" -> START_YEAR_OF_SHOWA
    [] g = "Heisei" -> START_YEAR_OF_SHOWA
    [] g = "Reiwa" -> START_YEAR_OF_REIWA

first_year(g) ==
  CASE g = "Meiji" -> START_YEAR_OF_MEIJI
    [] g = "Taisho" -> START_YEAR_OF_TAISHO
    [] g = "Showa" -> START_YEAR_OF_SHOWA
    [] g = "Heisei" -> START_YEAR_OF_HEISEI
    [] g = "Reiwa" -> START_YEAR_OF_REIWA

(***************************************************************************)
(* kana::wide2ascii, which to_half_width calls: every code point strictly  *)
(* between U+FF00 and U+FF5F is shifted down by 0xFEE0, all others pass.   *)
(***************************************************************************)
WIDE_LOW == 65280
WIDE_HIGH == 65375
WIDE_SHIFT == 65248

\* A normalizer that converts the full-width digits only.
wide2ascii_char_digits_only(c) ==
  IF FULLWIDTH_ZERO <= c /\ c <= FULLWIDTH_NINE THEN c - WIDE_SHIFT ELSE c

wide2ascii_char(c) ==
  IF WIDE_LOW < c /\ c < WIDE_HIGH THEN c - WIDE_SHIFT ELSE c

to_half_width(s) == [i \in 1..Len(s) |-> wide2ascii_char(s[i])]

(***************************************************************************)
(* str::replace(from, to) for a one-character pattern, str::split(sep),    *)
(* Iterator::skip(n) and Iterator::filter(|x| x != c).                     *)
(***************************************************************************)
replace(s, from, to) == [i \in 1..Len(s) |-> IF s[i] = from THEN to ELSE s[i]]

RECURSIVE split(_, _)
split(s, sep) ==
  IF \A i \in 1..Len(s) : s[i] # sep
  THEN <<s>>
  ELSE LET k == CHOOSE i \in 1..Len(s) :
                  s[i] = sep /\ \A j \in 1..(i - 1) : s[j] # sep
       IN <<SubSeq(s, 1, k - 1)>> \o split(SubSeq(s, k + 1, Len(s)), sep)

skip(s, n) == SubSeq(s, n + 1, Len(s))

filter_ne(s, c) == SelectSeq(s, LAMBDA x : x # c)

is_ascii_digit(c) == CH_ZERO <= c /\ c <= CH_NINE

(***************************************************************************)
(* The regex crate's \d is Unicode-aware: it matches every decimal digit   *)
(* (general category Nd), of which the ASCII, Arabic-Indic and full-width  *)
(* digits are the ones the model's inputs can contain.                     *)
(***************************************************************************)
is_regex_digit(c) ==
  \/ is_ascii_digit(c)
  \/ (ARABIC_INDIC_ZERO <= c /\ c <= ARABIC_INDIC_NINE)
  \/ (FULLWIDTH_ZERO <= c /\ c <= FULLWIDTH_NINE)

re_begin_with_digit(s) == Len(s) >= 1 /\ is_regex_digit(s[1])

re_begin_with_char(s) == Len(s) >= 1 /\ s[1] \in {CH_M, CH_T, CH_S, CH_H, CH_R}

re_begin_with_kanji(s) ==
  Len(s) >= 1 /\ s[1] \in {KJ_MEI, KJ_TAI, KJ_SHO, KJ_HEI, KJ_REI}

EraNames ==
  { <<KJ_MEI, KJ_JI>>, <<KJ_TAI, KJ_SHO_T>>, <<KJ_SHO, KJ_WA>>,
    <<KJ_HEI, KJ_SEI>>, <<KJ_REI, KJ_WA>> }

\* The position after the longest run of regex digits that starts at i.
RECURSIVE digit_run_end(_, _)
digit_run_end(s, i) ==
  IF i <= Len(s) /\ is_regex_digit(s[i]) THEN digit_run_end(s, i + 1) ELSE i

\* The position after "\d+<unit>" matched at i, or 0 when it does not match.
match_digits_unit(s, i, unit) ==
  LET e == digit_run_end(s, i)
  IN IF i # 0 /\ e > i /\ e <= Len(s) /\ s[e] = unit THEN e + 1 ELSE 0

\* ^(明治|大正|昭和|平成|令和)\d+年\d+月\d+日 : anchored at the start only.
re_separated_with_kanji(s) ==
  /\ Len(s) >= 2
  /\ SubSeq(s, 1, 2) \in EraNames
  /\ match_digits_unit(s,
       match_digits_unit(s, match_digits_unit(s, 3, KJ_NEN), KJ_GATSU),
       KJ_NICHI) # 0

(***************************************************************************)
(* Outcomes of a call: a returned value, or a panic (the process of the    *)
(* caller is unwound/terminated) with the place that raised it.            *)
(***************************************************************************)
Panic(site) == [kind |-> "panic", site |-> site]
OkNone == [kind |-> "none"]
OkType(t) == [kind |-> "type", dtype |-> t]
OkGengo(g) == [kind |-> "gengo", gengo |-> g]
OkString(s) == [kind |-> "string", str |-> s]
OkDate(y, m, d) == [kind |-> "date", year |-> y, month |-> m, day |-> d]

find_type(wareki) ==
  LET wareki_half == to_half_width(wareki)
      elm == split(wareki_half, CH_DOT)
  IN IF Len(elm) = 1
     THEN IF re_separated_with_kanji(elm[1])
          THEN OkType("SeparatedWithKanji")
          ELSE Panic("find_type: assert!(re_separated_with_kanji)")
     ELSE IF Len(elm) # 3
     THEN Panic("find_type: assert_eq!(elm.len(), 3)")
     ELSE IF re_begin_with_digit(elm[1]) THEN OkType("JisX0301Basic")
     ELSE IF re_begin_with_char(elm[1]) THEN OkType("JisX0301Extended")
     ELSE IF re_begin_with_kanji(elm[1]) THEN OkType("JisX0301ExtendedWithKanji")
     ELSE OkNone

\* A resolver whose Heisei list lacks the Kanji initial.
gengo_resolve_latin_heisei(wareki) ==
  LET wareki_half == to_half_width(wareki)
  IN IF Len(wareki_half) >= 1 /\ wareki_half[1] \in {CH_M, KJ_MEI} THEN "Meiji"
     ELSE IF Len(wareki_half) >= 1 /\ wareki_half[1] \in {CH_T, KJ_TAI} THEN "Taisho"
     ELSE IF Len(wareki_half) >= 1 /\ wareki_half[1] \in {CH_S, KJ_SHO} THEN "Showa"
     ELSE IF Len(wareki_half) >= 1 /\ wareki_half[1] \in {CH_H} THEN "Heisei"
     ELSE "Reiwa"

gengo_resolve(wareki) ==
  LET wareki_half == to_half_width(wareki)
  IN IF Len(wareki_half) >= 1 /\ wareki_half[1] \in {CH_M, KJ_MEI} THEN "Meiji"
     ELSE IF Len(wareki_half) >= 1 /\ wareki_half[1] \in {CH_T, KJ_TAI} THEN "Taisho"
     ELSE IF Len(wareki_half) >= 1 /\ wareki_half[1] \in {CH_S, KJ_SHO} THEN "Showa"
     ELSE IF Len(wareki_half) >= 1 /\ wareki_half[1] \in {CH_H, KJ_HEI} THEN "Heisei"
     ELSE "Reiwa"

(***************************************************************************)
(* u32 values as two 16-bit halves; str::parse::<u32>.  The parser accepts *)
(* one leading '+', then requires at least one ASCII digit and only ASCII  *)
(* digits, and fails when the value exceeds u32::MAX.                      *)
(***************************************************************************)
HALF == 65536
HALF_SIGN == 32768
I32_MAX == 2147483647

U32(hi, lo) == [hi |-> hi, lo |-> lo]

\* acc * 10 + digit, with ok = FALSE on overflow of the 32 bits.
u32_push_digit(acc, digit) ==
  LET lo2 == acc.lo * 10 + digit
      hi2 == acc.hi * 10 + (lo2 \div HALF)
  IN [ok |-> hi2 < HALF, val |-> U32(hi2 % HALF, lo2 % HALF)]

RECURSIVE parse_digits(_, _, _)
parse_digits(s, i, acc) ==
  IF i > Len(s) THEN [ok |-> TRUE, val |-> acc]
  ELSE IF ~is_ascii_digit(s[i]) THEN [ok |-> FALSE, val |-> acc]
  ELSE LET r == u32_push_digit(acc, s[i] - CH_ZERO)
       IN IF r.ok THEN parse_digits(s, i + 1, r.val) ELSE r

parse_u32(s) ==
  IF Len(s) = 0 THEN [ok |-> FALSE, val |-> U32(0, 0)]
  ELSE IF s[1] \in {CH_PLUS, CH_MINUS} /\ Len(s) = 1 THEN [ok |-> FALSE, val |-> U32(0, 0)]
  ELSE IF s[1] = CH_PLUS THEN parse_digits(s, 2, U32(0, 0))
  ELSE parse_digits(s, 1, U32(0, 0))

\* split('.').map(|x| x.parse().unwrap()).collect(): the parsed fields, or a
\* panic at the first field that does not parse.
parse_all(fields) ==
  IF \E i \in 1..Len(fields) : ~parse_u32(fields[i]).ok
  THEN [ok |-> FALSE, vals |-> <<>>]
  ELSE [ok |-> TRUE, vals |-> [i \in 1..Len(fields) |-> parse_u32(fields[i]).val]]

(***************************************************************************)
(* `x as i32` of a u32 (two's complement reinterpretation) and i32         *)
(* addition of a small constant: with overflow checks the addition panics  *)
(* on overflow, without them it wraps around.                              *)
(***************************************************************************)
as_i32(u) ==
  IF u.hi < HALF_SIGN THEN u.hi * HALF + u.lo ELSE (u.hi - HALF) * HALF + u.lo

add_i32(a, b) ==
  IF b >= 0 /\ a > I32_MAX - b
  THEN [overflow |-> TRUE, val |-> ((a - I32_MAX) + (b - I32_MAX)) - 2]
  ELSE IF b < 0 /\ a < ((-I32_MAX) - 1) - b
  THEN [overflow |-> TRUE, val |-> ((a + I32_MAX) + (b + I32_MAX)) + 2]
  ELSE [overflow |-> FALSE, val |-> a + b]

(***************************************************************************)
(* chrono: Utc.with_ymd_and_hms(y, m, d, 0, 0, 0) is LocalResult::None     *)
(* unless (y, m, d) is a date of the proleptic Gregorian calendar within   *)
(* chrono's range of years.                                                *)
(***************************************************************************)
CHRONO_MAX_YEAR == 262142
CHRONO_MIN_YEAR == -262143

is_leap_year(y) == y % 4 = 0 /\ (y % 100 # 0 \/ y % 400 = 0)

days_in_month(y, m) ==
  IF m = 2 THEN (IF is_leap_year(y) THEN 29 ELSE 28)
  ELSE IF m \in {4, 6, 9, 11} THEN 30
  ELSE 31

with_ymd_and_hms(year, month, day) ==
  /\ CHRONO_MIN_YEAR <= year /\ year <= CHRONO_MAX_YEAR
  /\ month.hi = 0 /\ 1 <= month.lo /\ month.lo <= 12
  /\ day.hi = 0 /\ 1 <= day.lo /\ day.lo <= days_in_month(year, month.lo)

(***************************************************************************)
(* convert.  overflow_checks is the build's setting (on in the dev         *)
(* profile, off in the release profile).                                   *)
(***************************************************************************)
\* A convert that does not replace the first-year glyph.
replace_gannen_omitted(s) == s

replace_gannen(s) == replace(s, KJ_GAN, CH_ZERO + 1)

\* The strings handed to parse(), per date type.
ymd_fields(wareki_half, date_type) ==
  IF date_type = "SeparatedWithKanji"
  THEN LET kept == filter_ne(skip(wareki_half, 2), KJ_NICHI)
           tmp == [i \in 1..Len(kept) |->
                     IF is_ascii_digit(kept[i]) THEN kept[i] ELSE CH_DOT]
       IN split(tmp, CH_DOT)
  ELSE IF date_type = "JisX0301Basic"
  THEN split(wareki_half, CH_DOT)
  ELSE split(skip(wareki_half, 1), CH_DOT)

\* year = ymd_elements[0] as i32 + first_year - 1
compute_year(era_year, gengo, overflow_checks) ==
  LET s1 == add_i32(as_i32(era_year), first_year(gengo))
      s2 == add_i32(s1.val, -1)
  IN IF overflow_checks /\ s1.overflow THEN [ok |-> FALSE, val |-> 0]
     ELSE IF overflow_checks /\ s2.overflow THEN [ok |-> FALSE, val |-> 0]
     ELSE [ok |-> TRUE, val |-> s2.val]

convert(wareki, overflow_checks) ==
  LET wareki_half == replace_gannen(to_half_width(wareki))
      date_type == find_type(wareki_half)
      gengo == gengo_resolve(wareki_half)
  IN IF date_type.kind = "panic" THEN date_type
     ELSE IF date_type.kind = "none" THEN OkNone
     ELSE LET parsed == parse_all(ymd_fields(wareki_half, date_type.dtype))
          IN IF ~parsed.ok THEN Panic("convert: parse().unwrap()")
             ELSE IF Len(parsed.vals) # 3
             THEN Panic("convert: assert_eq!(ymd_elements.len(), 3)")
             ELSE LET year == compute_year(parsed.vals[1], gengo, overflow_checks)
                  IN IF ~year.ok THEN Panic("convert: attempt to add with overflow")
                     ELSE IF ~with_ymd_and_hms(year.val, parsed.vals[2], parsed.vals[3])
                     THEN Panic("convert: with_ymd_and_hms().unwrap()")
                     ELSE OkDate(year.val, parsed.vals[2].lo, parsed.vals[3].lo)

(***************************************************************************)
(* Inputs.  A well-formed input is written from an era, an era-relative    *)
(* year, a month and a day in one of the four notations, as the tests of   *)
(* src/src/lib.rs write them: zero-padded or not, full-width or half-width,*)
(* the year as a numeral or as the first-year glyph.                       *)
(***************************************************************************)
MaxYear == 60
MaxMonth == 12
MaxDay == 28
MaxStyleYear == 11
MaxStyleMonth == 13
MaxStyleDay == 10

Notations == DateType

era_letter(g) ==
  CASE g = "Meiji" -> CH_M [] g = "Taisho" -> CH_T [] g = "Showa" -> CH_S
    [] g = "Heisei" -> CH_H [] g = "Reiwa" -> CH_R

era_kanji(g) ==
  CASE g = "Meiji" -> KJ_MEI [] g = "Taisho" -> KJ_TAI [] g = "Showa" -> KJ_SHO
    [] g = "Heisei" -> KJ_HEI [] g = "Reiwa" -> KJ_REI

era_name(g) ==
  CASE g = "Meiji" -> <<KJ_MEI, KJ_JI>> [] g = "Taisho" -> <<KJ_TAI, KJ_SHO_T>>
    [] g = "Showa" -> <<KJ_SHO, KJ_WA>> [] g = "Heisei" -> <<KJ_HEI, KJ_SEI>>
    [] g = "Reiwa" -> <<KJ_REI, KJ_WA>>

Digits(t) == [i \in 1..Len(t) |-> CH_ZERO + t[i]]

RECURSIVE decimal(_)
decimal(n) == IF n < 10 THEN <<CH_ZERO + n>> ELSE decimal(n \div 10) \o <<CH_ZERO + (n % 10)>>

format_field(n, pad) == IF pad /\ n < 10 THEN <<CH_ZERO>> \o decimal(n) ELSE decimal(n)

\* kana::ascii2wide on one character: how the tests' full-width inputs relate
\* to their half-width ones.
ascii2wide_char(c) == IF 32 < c /\ c < 127 THEN c + WIDE_SHIFT ELSE c

marker(notation, era) ==
  CASE notation = "JisX0301Basic" -> <<>>
    [] notation = "JisX0301Extended" -> <<era_letter(era)>>
    [] notation = "JisX0301ExtendedWithKanji" -> <<era_kanji(era)>>
    [] notation = "SeparatedWithKanji" -> era_name(era)

Encode(e) ==
  LET yf == IF e.gan THEN <<KJ_GAN>> ELSE format_field(e.y, e.pad)
      mf == format_field(e.m, e.pad)
      df == format_field(e.d, e.pad)
      narrow == IF e.notation = "SeparatedWithKanji"
                THEN marker(e.notation, e.era) \o yf \o <<KJ_NEN>> \o mf
                       \o <<KJ_GATSU>> \o df \o <<KJ_NICHI>>
                ELSE marker(e.notation, e.era) \o yf \o <<CH_DOT>> \o mf
                       \o <<CH_DOT>> \o df
  IN IF e.wide THEN [i \in 1..Len(narrow) |-> ascii2wide_char(narrow[i])] ELSE narrow

Enc(notation, era, y, m, d, pad, wide, gan) ==
  [family |-> "enc", notation |-> notation, era |-> era, y |-> y, m |-> m, d |-> d,
   pad |-> pad, wide |-> wide, gan |-> gan]

\* The notation without a marker writes dates of the current era only.
NotationEra ==
  { ne \in Notations \X Gengo : ne[1] = "JisX0301Basic" => ne[2] = "Reiwa" }

(***************************************************************************)
(* Arbitrary inputs: a prefix, three field tokens and a suffix, put        *)
(* together with dots or with the unit characters; and whole strings.      *)
(***************************************************************************)
RawPrefixes ==
  { <<>>, <<CH_M>>, <<CH_T>>, <<CH_S>>, <<CH_H>>, <<CH_R>>,
    <<KJ_MEI>>, <<KJ_TAI>>, <<KJ_SHO>>, <<KJ_HEI>>, <<KJ_REI>>,
    <<KJ_REI, KJ_WA>>, <<KJ_HEI, KJ_SEI>>,
    <<65325>>,                    \* FULLWIDTH M
    <<88>>,                       \* X
    <<KJ_GAN>>,
    <<1635>>,                     \* ARABIC-INDIC DIGIT THREE
    <<65330>>,                    \* FULLWIDTH R
    <<CH_R, 101, 105, 119, 97>> } \* Reiwa

RawYears ==
  { <<>>, Digits(<<1>>), Digits(<<0, 1>>), Digits(<<6, 0>>), <<KJ_GAN>>,
    <<120, 120>>,                 \* xx
    <<CH_PLUS, CH_ZERO + 1>>,
    <<CH_ZERO + 1, 1635>>,
    Digits(<<4, 2, 9, 4, 9, 6, 7, 2, 9, 5>>),
    Digits(<<4, 2, 9, 4, 9, 6, 7, 2, 9, 6>>),
    Digits(<<2, 1, 4, 7, 4, 8, 3, 6, 4, 7>>),
    Digits(<<2, 1, 4, 7, 4, 8, 3, 6, 4, 8>>) }

RawMonths ==
  { <<>>, Digits(<<1>>), Digits(<<2>>), Digits(<<0>>), Digits(<<1, 3>>), <<120, 120>> }

RawDays ==
  { <<>>, Digits(<<3>>), Digits(<<0>>), Digits(<<3, 0>>), Digits(<<3, 2>>) }

RawSuffixes == { <<>>, Digits(<<1>>), <<CH_DOT>> \o Digits(<<4>>) }

RawLiterals ==
  { <<>>,
    <<98, 111, 103, 117, 115>>,   \* bogus
    Digits(<<1>>),
    Digits(<<1>>) \o <<CH_DOT>> \o Digits(<<2>>),
    <<CH_R>> \o Digits(<<1>>) \o <<CH_DOT>> \o Digits(<<2>>) }

Raw(shape, prefix, year, month, day, suffix) ==
  [family |-> "raw", shape |-> shape, prefix |-> prefix, year |-> year,
   month |-> month, day |-> day, suffix |-> suffix]

Assemble(r) ==
  CASE r.shape = "dotted" ->
         r.prefix \o r.year \o <<CH_DOT>> \o r.month \o <<CH_DOT>> \o r.day \o r.suffix
    [] r.shape = "narrative" ->
         r.prefix \o r.year \o <<KJ_NEN>> \o r.month \o <<KJ_GATSU>> \o r.day
           \o <<KJ_NICHI>> \o r.suffix
    [] r.shape = "literal" -> r.prefix

Text(s) == IF s.family = "enc" THEN Encode(s) ELSE Assemble(s)

(***************************************************************************)
(* The state: one input and the outcome of the one call made on it.        *)
(* pc names the function that was called ("ready" before the call).        *)
(***************************************************************************)
VARIABLES input, src, pc, result

vars == <<input, src, pc, result>>

NoResult == [kind |-> "pending"]

Start(source) ==
  /\ src = source
  /\ input = Text(source)
  /\ pc = "ready"
  /\ result = NoResult

Init ==
  \/ \E shape \in {"dotted", "narrative"}, p \in RawPrefixes, y \in RawYears,
        m \in RawMonths, d \in RawDays, s \in RawSuffixes :
       Start(Raw(shape, p, y, m, d, s))
  \/ \E p \in RawLiterals : Start(Raw("literal", p, <<>>, <<>>, <<>>, <<>>))

InitPlain ==
  \E ne \in NotationEra, y \in 1..MaxYear, m \in 1..MaxMonth, d \in 1..MaxDay :
    Start(Enc(ne[1], ne[2], y, m, d, FALSE, FALSE, FALSE))

InitStyled ==
  \E ne \in NotationEra, m \in 0..MaxStyleMonth, d \in 0..MaxStyleDay,
     pad \in BOOLEAN, wide \in BOOLEAN :
    \/ \E y \in 1..MaxStyleYear : Start(Enc(ne[1], ne[2], y, m, d, pad, wide, FALSE))
    \/ Start(Enc(ne[1], ne[2], 1, m, d, pad, wide, TRUE))

Call_to_half_width ==
  /\ pc = "ready"
  /\ pc' = "to_half_width"
  /\ result' = OkString(to_half_width(input))
  /\ UNCHANGED <<input, src>>

Call_find_type ==
  /\ pc = "ready"
  /\ pc' = "find_type"
  /\ result' = find_type(input)
  /\ UNCHANGED <<input, src>>

Call_gengo_resolve ==
  /\ pc = "ready"
  /\ pc' = "gengo_resolve"
  /\ result' = OkGengo(gengo_resolve(input))
  /\ UNCHANGED <<input, src>>

\* The build's overflow-checks setting is not the caller's choice.
Call_convert ==
  /\ pc = "ready"
  /\ pc' = "convert"
  /\ \E overflow_checks \in BOOLEAN : result' = convert(input, overflow_checks)
  /\ UNCHANGED <<input, src>>

Next ==
  \/ Call_to_half_width
  \/ Call_find_type
  \/ Call_gengo_resolve
  \/ Call_convert

NextConvert == Call_convert

Spec == Init /\ [][Next]_vars

SpecPlain == InitPlain /\ [][NextConvert]_vars

SpecStyled == InitStyled /\ [][NextConvert]_vars

(***************************************************************************)
(* What the claims speak of.                                               *)
(***************************************************************************)
\* The start years as the specification lists them.
ClaimStartYear(era) ==
  CASE era = "Meiji" -> 1868 [] era = "Taisho" -> 1912 [] era = "Showa" -> 1926
    [] era = "Heisei" -> 1989 [] era = "Reiwa" -> 2019

\* A failure handed back to the caller as a value: Ok(None) or Err(e).
IsFailureValue(r) == r.kind \in {"none", "error"}

NonEmptyDigits(s) == Len(s) >= 1 /\ \A i \in 1..Len(s) : is_ascii_digit(s[i])

\* The same fields, unpadded, half-width and with the year as a numeral.
Canonical(e) == [e EXCEPT !.pad = FALSE, !.wide = FALSE]

WithNumeralYear(e) == [e EXCEPT !.gan = FALSE]

\* What convert classifies and extracts from: the normalized input.
Normalized(s) == replace_gannen(to_half_width(s))

\* C1: for every era and every (y, m, d) with 1 <= y <= 60, 1 <= m <= 12,
\* 1 <= d <= 28, convert of each notation that writes (era, y, m, d) returns
\* the date (y + start_year(era) - 1, m, d).
C1_RoundTrip ==
  (pc = "convert" /\ src.y \in 1..60 /\ src.m \in 1..12 /\ src.d \in 1..28)
    => result = OkDate(src.y + ClaimStartYear(src.era) - 1, src.m, src.d)

C1_Witness ==
  /\ pc = "convert"
  /\ src.notation = "SeparatedWithKanji" /\ src.era = "Showa"
  /\ src.y = 60 /\ src.m = 12 /\ src.d = 28
  /\ result = OkDate(1985, 12, 28)

\* C2: an input whose dot-split has one segment that does not match the
\* narrative pattern, or a number of segments other than 1 or 3, makes
\* find_type and convert return a failure value; they never panic.
C2_UnrecognizedIsValue ==
  LET text == IF pc = "convert" THEN Normalized(input) ELSE to_half_width(input)
      elm == split(text, CH_DOT)
  IN (/\ pc \in {"find_type", "convert"}
      /\ \/ Len(elm) \notin {1, 3}
         \/ (Len(elm) = 1 /\ ~re_separated_with_kanji(elm[1])))
       => IsFailureValue(result)

\* C3: a classified input with a year, month or day token that is not a
\* non-empty string of digits, or without exactly three fields, makes convert
\* return a failure value; it neither panics nor returns a date.
C3_MalformedIsValue ==
  LET text == Normalized(input)
      ft == find_type(text)
      fields == ymd_fields(text, ft.dtype)
  IN (/\ pc = "convert"
      /\ ft.kind = "type"
      /\ \/ Len(fields) # 3
         \/ \E i \in 1..Len(fields) : ~NonEmptyDigits(fields[i]))
       => IsFailureValue(result)

\* C4: a well-formed input whose (year, month, day) the date library rejects
\* makes convert return a failure value; it neither panics nor returns a date.
C4_InvalidDateIsValue ==
  LET text == Normalized(input)
      ft == find_type(text)
      fields == ymd_fields(text, ft.dtype)
      y == parse_u32(fields[1])
      m == parse_u32(fields[2])
      d == parse_u32(fields[3])
  IN (/\ pc = "convert"
      /\ ft.kind = "type"
      /\ Len(fields) = 3
      /\ \A i \in 1..3 : NonEmptyDigits(fields[i])
      /\ y.ok /\ m.ok /\ d.ok
      /\ y.val.hi = 0
      /\ ~with_ymd_and_hms(y.val.lo + ClaimStartYear(gengo_resolve(text)) - 1,
                           m.val, d.val))
       => IsFailureValue(result)

\* C5: in the narrative and the marker notations, the input written with the
\* first-year glyph in the year position converts to what the same input
\* written with the numeral 1 converts to, in every build; for a month in
\* 1..12 and a day in 1..28 that is a date in the era's start year.
C5_FirstYearToken ==
  (pc = "convert" /\ src.gan /\ src.notation # "JisX0301Basic")
    => /\ \A oc \in BOOLEAN : result = convert(Encode(WithNumeralYear(src)), oc)
       /\ (src.m \in 1..12 /\ src.d \in 1..28)
            => result = OkDate(ClaimStartYear(src.era), src.m, src.d)

C5_Witness ==
  /\ pc = "convert"
  /\ src.gan /\ src.notation = "SeparatedWithKanji" /\ src.era = "Heisei"
  /\ ~src.pad /\ ~src.wide /\ src.m = 2 /\ src.d = 3
  /\ input = <<KJ_HEI, KJ_SEI, KJ_GAN, KJ_NEN, CH_ZERO + 2, KJ_GATSU, CH_ZERO + 3, KJ_NICHI>>
  /\ result = OkDate(1989, 2, 3)

\* The era the specification gives for the first character of the normalized
\* string (0 stands for "no first character").
ClaimEra(c) ==
  CASE c \in {77, 26126} -> "Meiji"
    [] c \in {84, 22823} -> "Taisho"
    [] c \in {83, 26157} -> "Showa"
    [] c \in {72, 24179} -> "Heisei"
    [] OTHER -> "Reiwa"

IsNumericTriple(s) ==
  /\ s.family = "raw" /\ s.shape = "dotted"
  /\ s.prefix = <<>> /\ s.suffix = <<>>
  /\ NonEmptyDigits(s.year) /\ NonEmptyDigits(s.month) /\ NonEmptyDigits(s.day)

\* C6: gengo_resolve always returns an era, the one of the first character of
\* the width-normalized string and Reiwa when that character names no era or
\* is missing; and convert of 'y.m.d' is convert of 'Ry.m.d' in the same build.
C6_DefaultEra ==
  /\ pc = "gengo_resolve"
       => result = OkGengo(ClaimEra(IF input = <<>> THEN 0
                                    ELSE wide2ascii_char(input[1])))
  /\ (pc = "convert" /\ IsNumericTriple(src))
       => \A oc \in BOOLEAN :
            result = convert(input, oc) => result = convert(<<CH_R>> \o input, oc)

C6_Witness ==
  /\ pc = "convert"
  /\ IsNumericTriple(src)
  /\ input = <<CH_ZERO, CH_ZERO + 1, CH_DOT, CH_ZERO + 2, CH_DOT, CH_ZERO + 3>>
  /\ result = OkDate(2019, 2, 3)

\* C7: convert of an input with zero-padded fields, or written in full-width
\* digits, letters and dots, is convert of the same fields unpadded and
\* half-width; and convert(s) = convert(to_half_width(s)).
C7_Presentation ==
  pc = "convert"
    => \A oc \in BOOLEAN :
         /\ result = convert(Encode(Canonical(src)), oc)
         /\ result = convert(to_half_width(input), oc)

C7_Witness ==
  /\ pc = "convert"
  /\ src.pad /\ src.wide /\ src.notation = "JisX0301Extended" /\ src.era = "Heisei"
  /\ src.y = 1 /\ src.m = 2 /\ src.d = 3 /\ ~src.gan
  /\ input # Encode(Canonical(src))
  /\ input # to_half_width(input)
  /\ result = OkDate(1989, 2, 3)

\* C8: an input of three dot-separated segments whose first character, once
\* width-normalized, is neither an ASCII digit nor a Latin or Kanji era marker
\* makes convert report "unrecognized": no date, and no panic.
C8_UnknownMarkerRejected ==
  LET n == to_half_width(input)
  IN (/\ pc = "convert"
      /\ Len(split(n, CH_DOT)) = 3
      /\ ~is_ascii_digit(n[1])
      /\ n[1] \notin {77, 84, 83, 72, 82, 26126, 22823, 26157, 24179, 20196})
       => result = OkNone

\* The ASCII digits immediately before the first occurrence of unit in s.
RECURSIVE digits_ending_at(_, _)
digits_ending_at(s, k) ==
  IF k >= 1 /\ is_ascii_digit(s[k]) THEN digits_ending_at(s, k - 1) \o <<s[k]>> ELSE <<>>

DigitRunBefore(s, unit) ==
  LET k == CHOOSE i \in 1..Len(s) : s[i] = unit /\ \A j \in 1..(i - 1) : s[j] # unit
  IN digits_ending_at(s, k - 1)

Occurs(s, c) == \E i \in 1..Len(s) : s[i] = c

\* <era name><digits>年<digits>月<digits>日 and nothing more.
WholeNarrative(s) ==
  /\ Len(s) >= 2
  /\ SubSeq(s, 1, 2) \in EraNames
  /\ match_digits_unit(s,
       match_digits_unit(s, match_digits_unit(s, 3, KJ_NEN), KJ_GATSU),
       KJ_NICHI) = Len(s) + 1

\* C9: find_type classifies a single-segment input as the narrative notation
\* only when the whole string is <era name><digits>年<digits>月<digits>日, and
\* a date that convert returns for a single-segment input has for year, month
\* and day the digit runs immediately before 年, 月 and 日.
C9_NarrativeExact ==
  LET n == Normalized(input)
      y == parse_u32(DigitRunBefore(n, KJ_NEN))
      m == parse_u32(DigitRunBefore(n, KJ_GATSU))
      d == parse_u32(DigitRunBefore(n, KJ_NICHI))
  IN /\ (pc = "find_type" /\ result = OkType("SeparatedWithKanji"))
          => WholeNarrative(to_half_width(input))
     /\ (pc = "convert" /\ ~Occurs(n, CH_DOT) /\ result.kind = "date")
          => /\ Occurs(n, KJ_NEN) /\ Occurs(n, KJ_GATSU) /\ Occurs(n, KJ_NICHI)
             /\ y.ok /\ m.ok /\ d.ok
             /\ y.val.hi = 0
                  => result.year = y.val.lo + ClaimStartYear(gengo_resolve(n)) - 1
             /\ m.val = U32(0, result.month)
             /\ d.val = U32(0, result.day)

\* C10: when the year field parses as a u32 y, the year of a date that
\* convert returns is the integer y + start_year(era) - 1: no wrapped or
\* overflowed year reaches the caller.
C10_YearExact ==
  LET text == Normalized(input)
      ft == find_type(text)
      fields == ymd_fields(text, ft.dtype)
      y == parse_u32(fields[1])
      rel == result.year - ClaimStartYear(gengo_resolve(text)) + 1
  IN (pc = "convert" /\ ft.kind = "type" /\ y.ok)
       => (result.kind = "date"
             => (rel >= 0 /\ y.val = U32(rel \div HALF, rel % HALF)))

====
